---- MODULE Spec2Model ----
(***************************************************************************)
(* Triac power regulator (ATtiny13, 4.8 MHz): a phase-cut dimmer driven by *)
(* three interrupt sources, INT0 (mains zero cross), ADC (conversion       *)
(* complete) and TIM0_COMPA (Timer0 compare match A).                      *)
(*                                                                         *)
(* Spec     : the interrupt handlers of SW/src/main.c as atomic steps      *)
(*            (an AVR ISR runs with the global interrupt flag cleared),    *)
(*            interleaved with the ticks of Timer0.                        *)
(* SpecCalc : the numeric functions of SW/src/functions.c applied to       *)
(*            inputs drawn from their whole domain.                        *)
(***************************************************************************)
EXTENDS Integers, Sequences, FiniteSets, TLC

VARIABLES
    PORTB_PB0,   \* output pin PB0 driving the optotriac: 1 asserted, 0 not
    state,       \* controller_states: WAITING_FOR_TRIGGER or SWITCHING
    ADCResult,   \* volatile int ADCResult, the latched sample
    ADSC,        \* ADCSRA.ADSC: a conversion has been started and not ended
    timer0,      \* Timer0: [CS, OCIE0A, OCF0A, toMatch]
                 \*   CS      clock select of TCCR0B as a divisor, 0 = stopped
                 \*   OCIE0A  TIMSK0.OCIE0A, compare match interrupt enable
                 \*   OCF0A   TIFR0.OCF0A, compare match flag (expiry raised)
                 \*   toMatch (OCR0A - TCNT0) mod 256: the software writes
                 \*           OCR0A only relative to TCNT0 and never writes
                 \*           TCNT0, so the hardware comparison TCNT0 = OCR0A
                 \*           depends on this difference alone
    ev,          \* history: the event of the last step
    lastPercent, \* history: percentage computed by the last INT0 handler
    atZC,        \* history: [state, PB0, OCF0A] when the last INT0 handler
                 \*          began
    stale,       \* history: OCF0A is set and was raised before the last INT0
                 \*          handler had programmed the timer
    asserts,     \* history: times the output went from de-asserted to
                 \*          asserted since the last INT0 handler
    call,        \* the last call of a numeric function
    \* SpecISR, the handlers instruction by instruction:
    SREG_I,      \* global interrupt enable flag I of SREG
    isr,         \* positions of the handlers begun and not returned, the
                 \* running one last; empty in the idle loop of main()
    INTF0,       \* GIFR.INTF0: a rising edge on INT0 awaits its handler
    ADIF,        \* ADCSRA.ADIF: a completed conversion awaits its handler
    ADCreg,      \* ADC data register ADCH:ADCL
    ADClocked,   \* ADCL has been read and ADCH not yet: register frozen
    ADCTempResult, \* local of ISR(ADC_vect)
    word,        \* ISR(ADC_vect): the int value being stored to ADCResult
    arg,         \* ISR(INT0_vect): the int value being loaded from ADCResult
    delivered    \* history: reading stored by the last completed ADC handler

histVars == <<ev, lastPercent, atZC, stale, asserts>>
isrVars == <<SREG_I, isr, INTF0, ADIF, ADCreg, ADClocked, ADCTempResult,
             word, arg, delivered>>
vars == <<PORTB_PB0, state, ADCResult, ADSC, timer0, histVars, call,
          isrVars>>

----------------------------------------------------------------------------
(* Program constants, SW/inc/functions.h *)

UPPER_THRESHOLD_VALUE_Max == (2^10) - 1
UPPER_THRESHOLD_VALUE == 941
LOWER_THRESHOLD_VALUE == 220
MAX_ADC_VALUE == 1023
MIN_ADC_VALUE == 205
ADC_RANGE_VALUE_NoMin == MAX_ADC_VALUE
ADC_RANGE_VALUE == MAX_ADC_VALUE - MIN_ADC_VALUE
ZERO_CROSS_DELAY_US == 1000
ZERO_CROSS_DELAY_OCR0A_PRESC_64 == 74
TRIGGER_PULSE_DURATION_PRESC_8 == 149
HALF_PERIOD_DURATION_US == 10000

\* OPTOTRIAC_OFF: PORTB &= ~(1 << PB0);  OPTOTRIAC_ON: PORTB |= (1 << PB0)
OPTOTRIAC_OFF_toggle == 1 - PORTB_PB0
OPTOTRIAC_OFF == 0
OPTOTRIAC_ON == 1

WAITING_FOR_TRIGGER == "WAITING_FOR_TRIGGER"
SWITCHING == "SWITCHING"
controller_states == {WAITING_FOR_TRIGGER, SWITCHING}

(* Integer widths of avr-gcc: unsigned is 16 bits, unsigned long 32 bits,  *)
(* char and the Timer0 registers 8 bits.                                   *)
(* TLC's integers are 32 bits wide and signed, so an unsigned long is kept  *)
(* as its two 16-bit halves [hi, lo].                                      *)
UInt(x) == x % (2^16)
Char(x) == x % (2^8)
ULong(x) == [hi |-> (x \div (2^16)) % (2^16), lo |-> x % (2^16)]
\* a - 1 in unsigned long arithmetic, for 0 <= a < 2^31
ULongMinus1(a) == IF a = 0 THEN [hi |-> (2^16) - 1, lo |-> (2^16) - 1]
                  ELSE ULong(a - 1)
\* the casts (unsigned) and (char) of an unsigned long
ULongToUInt(a) == a.lo
ULongToChar(a) == a.lo % (2^8)

----------------------------------------------------------------------------
(* Bounds of the model *)

\* Raw readings the sampler may deliver: one below the lower threshold, one
\* above the upper threshold, and general ones selecting divisor 64, 8, 256.
SampleSeq == <<100, 1000, 696, 940, 230, 500>>
NumSamples == 5
Samples == {SampleSeq[i] : i \in {j \in 1..Len(SampleSeq) : j <= NumSamples}}

\* The history counter asserts stops counting here.
MaxAsserts == 3

----------------------------------------------------------------------------
(* Numeric functions, SW/src/functions.c *)

\* CalculateADCValue with >= and <= for its two comparisons
CalculateADCValue_Inclusive(ADCValue) ==
    IF ADCValue >= UInt(UPPER_THRESHOLD_VALUE) THEN 100
    ELSE IF ADCValue <= UInt(LOWER_THRESHOLD_VALUE) THEN 0
    ELSE ULongToUInt(ULong(((ADCValue - MIN_ADC_VALUE) * 100)
                           \div ADC_RANGE_VALUE))

\* CalculateADCValue without the subtraction of MIN_ADC_VALUE
CalculateADCValue_NoOffset(ADCValue) ==
    IF ADCValue > UInt(UPPER_THRESHOLD_VALUE) THEN 100
    ELSE IF ADCValue < UInt(LOWER_THRESHOLD_VALUE) THEN 0
    ELSE ULongToUInt(ULong((ADCValue * 100) \div ADC_RANGE_VALUE))

\* unsigned CalculateADCValue(unsigned ADCValue)
CalculateADCValue(ADCValue) ==
    IF ADCValue > UInt(UPPER_THRESHOLD_VALUE) THEN 100
    ELSE IF ADCValue < UInt(LOWER_THRESHOLD_VALUE) THEN 0
    ELSE \* here ADCValue >= 220 > MIN_ADC_VALUE: the unsigned long
         \* difference, product and quotient stay below 2^31
         ULongToUInt(ULong(((ADCValue - MIN_ADC_VALUE) * 100)
                           \div ADC_RANGE_VALUE))

\* The unsigned long value a of CalculateRegisterValue, before the cast.
\* the value a with the microseconds divided by 10 before the multiplication
RegisterValueLong_DivFirst(prescaler, time) ==
    ULongMinus1((48 * (time \div 10)) \div prescaler)

\* 48 * time <= 48 * 65535 < 2^31; only the final - 1 can wrap.
RegisterValueLong(prescaler, time) ==
    ULongMinus1(((48 * time) \div 10) \div prescaler)

\* char CalculateRegisterValue(unsigned prescaler, unsigned time)
CalculateRegisterValue(prescaler, time) ==
    ULongToChar(RegisterValueLong(prescaler, time))

\* The local timeDelay of SetWaitingPulse, a 16-bit unsigned.
TimeDelay(percent) ==
    UInt(UInt(HALF_PERIOD_DURATION_US)
         - UInt(UInt((UInt(HALF_PERIOD_DURATION_US) \div 100) * percent)
                + UInt(ZERO_CROSS_DELAY_US)))

\* The divisor SetWaitingPulse selects for a delay.
SelectPrescaler(timeDelay) ==
    IF timeDelay < 425 THEN 8
    ELSE IF timeDelay < 3400 THEN 64
    ELSE 256

----------------------------------------------------------------------------
(* Timer0 *)

TIMER_INT_OFF_none(t) == t
TIMER_INT_OFF(t) == [t EXCEPT !.OCIE0A = FALSE]
TIMER_STOP(t) == [t EXCEPT !.CS = 0]

\* One clock of Timer0 (normal mode, counting modulo 256): the counter
\* advances, and a match TCNT0 = OCR0A raises OCF0A at this next timer clock,
\* whether or not OCIE0A is set.
TimerTick(t) == [t EXCEPT !.OCF0A = @ \/ (t.toMatch = 0),
                          !.toMatch = (@ - 1) % 256]

\* void SetTimer(unsigned prescaler, char OCValue), statement by statement.
\* The switch selects the divisor and with it starts the counter ("this
\* enables the timer function") before TIFR0 and OCR0A are written, so a
\* clock of the timer may fall between the clearing of OCF0A and the write of
\* OCR0A, while OCR0A still holds the previous compare value: SetTimer has
\* the set of outcomes without and with that clock.
SetTimer(t, prescaler, OCValue) ==
    LET t1 == TIMER_INT_OFF(t)
        t2 == TIMER_STOP(t1)
        t3 == IF prescaler \in {8, 64, 256}
              THEN [t2 EXCEPT !.CS = prescaler] ELSE t2
        t4 == [t3 EXCEPT !.OCF0A = FALSE]
        t5 == {t4} \cup (IF t4.CS # 0 THEN {TimerTick(t4)} ELSE {})
    IN  {[[x EXCEPT !.toMatch = Char(OCValue)] EXCEPT !.OCIE0A = TRUE] :
           x \in t5}

\* SetWaitingPulse without the branch percent == 100
SetWaitingPulse_No100(t, percent) ==
    IF percent = 0
    THEN {TIMER_STOP(TIMER_INT_OFF(t))}
    ELSE LET timeDelay == TimeDelay(percent)
         IN  SetTimer(t, SelectPrescaler(timeDelay),
                      CalculateRegisterValue(SelectPrescaler(timeDelay),
                                             timeDelay))

\* void SetWaitingPulse(unsigned percent)
SetWaitingPulse(t, percent) ==
    IF percent = 100
    THEN SetTimer(t, 64, Char(ZERO_CROSS_DELAY_OCR0A_PRESC_64))
    ELSE IF percent = 0
    THEN {TIMER_STOP(TIMER_INT_OFF(t))}
    ELSE LET timeDelay == TimeDelay(percent)
         IN  SetTimer(t, SelectPrescaler(timeDelay),
                      CalculateRegisterValue(SelectPrescaler(timeDelay),
                                             timeDelay))

----------------------------------------------------------------------------
(* State after reset, PinsInit(), sei() and ADCStart() *)

NoCall == [fn |-> "none", percent |-> 0, timeDelay |-> 0, prescaler |-> 0,
           a |-> ULong(0)]

Init ==
    /\ PORTB_PB0 = 0
    /\ state = WAITING_FOR_TRIGGER
    /\ ADCResult = 0
    /\ ADSC = TRUE
    /\ timer0 = [CS |-> 0, OCIE0A |-> FALSE, OCF0A |-> FALSE, toMatch |-> 0]
    /\ ev = "reset"
    /\ lastPercent = -1
    /\ atZC = [state |-> WAITING_FOR_TRIGGER, PB0 |-> 0, OCF0A |-> FALSE]
    /\ stale = FALSE
    /\ asserts = 0
    /\ call = NoCall
    /\ SREG_I = TRUE
    /\ isr = <<>>
    /\ INTF0 = FALSE
    /\ ADIF = FALSE
    /\ ADCreg = 0
    /\ ADClocked = FALSE
    /\ ADCTempResult = 0
    /\ word = 0
    /\ arg = 0
    /\ delivered = 0

\* 1 if the output goes from de-asserted to asserted, else 0
Rising(old, new) == IF old = 0 /\ new = 1 THEN 1 ELSE 0

\* One clock of the running Timer0, outside the handlers.
Tick ==
    /\ timer0.CS # 0
    /\ timer0' = TimerTick(timer0)
    /\ stale' = stale
    /\ ev' = "tick"
    /\ UNCHANGED asserts
    /\ UNCHANGED <<PORTB_PB0, state, ADCResult, ADSC, lastPercent,
                   atZC, call, isrVars>>

\* the state ISR(INT0_vect) assigns
INT0_state_kept == state
INT0_state == WAITING_FOR_TRIGGER

\* ISR(INT0_vect)
INT0_vect ==
    LET percent == CalculateADCValue(UInt(ADCResult))
    IN  /\ PORTB_PB0' = OPTOTRIAC_OFF
        /\ timer0' \in SetWaitingPulse(timer0, percent)
        /\ state' = INT0_state
        /\ ADSC' = TRUE
        /\ ev' = "INT0"
        /\ lastPercent' = percent
        /\ atZC' = [state |-> state, PB0 |-> PORTB_PB0,
                     OCF0A |-> timer0.OCF0A]
        /\ stale' = timer0'.OCF0A
        /\ asserts' = Rising(PORTB_PB0, PORTB_PB0')
        /\ UNCHANGED <<ADCResult, call, isrVars>>

\* ISR(ADC_vect) that also applies the new reading to the timer
ADC_vect_Apply ==
    /\ ADSC
    /\ \E s \in Samples :
         /\ ADCResult' = ((s \div 256) * 256) + (s % 256)
         /\ timer0' \in SetWaitingPulse(timer0, CalculateADCValue(s))
    /\ ADSC' = FALSE
    /\ ev' = "ADC"
    /\ UNCHANGED <<PORTB_PB0, state, lastPercent, atZC, stale, asserts, call,
                   isrVars>>

\* ISR(ADC_vect): the conversion started by ADCStart ends with the reading
\* s in ADCL (low byte) and ADCH (high bits)
ADC_vect ==
    /\ ADSC
    /\ \E s \in Samples :
         LET ADCL == s % 256
             ADCH == s \div 256
             temp == ADCL
         IN  ADCResult' = (ADCH * 256) + temp
    /\ ADSC' = FALSE
    /\ ev' = "ADC"
    /\ UNCHANGED <<PORTB_PB0, state, timer0, lastPercent, atZC,
                   stale, asserts, call, isrVars>>

\* The branch state == SWITCHING of ISR(TIM0_COMPA_vect) has no statement
\* on the timer
TIM0_COMPA_Switching_stop(t) == TIMER_STOP(TIMER_INT_OFF(t))
TIM0_COMPA_Switching(t) == t

\* ISR(TIM0_COMPA_vect): taken when OCF0A is set and OCIE0A enabled; the
\* hardware clears OCF0A when the vector is executed
\* the body without state = SWITCHING in its first branch
TIM0_COMPA_body_NoSwitch(t) ==
    IF state = WAITING_FOR_TRIGGER
    THEN /\ PORTB_PB0' = OPTOTRIAC_ON
         /\ timer0' \in SetTimer(t, 8, Char(149))
         /\ UNCHANGED state
    ELSE /\ PORTB_PB0' = OPTOTRIAC_OFF
         /\ timer0' = TIM0_COMPA_Switching(t)
         /\ UNCHANGED state

\* the body returning to WAITING_FOR_TRIGGER in its second branch
TIM0_COMPA_body_Rearm(t) ==
    IF state = WAITING_FOR_TRIGGER
    THEN /\ PORTB_PB0' = OPTOTRIAC_ON
         /\ state' = SWITCHING
         /\ timer0' \in SetTimer(t, 8, Char(149))
    ELSE /\ PORTB_PB0' = OPTOTRIAC_OFF
         /\ timer0' = TIM0_COMPA_Switching(t)
         /\ state' = WAITING_FOR_TRIGGER

\* the body disabling the expiry signal instead of re-arming the timer
TIM0_COMPA_body_NoRearm(t) ==
    IF state = WAITING_FOR_TRIGGER
    THEN /\ PORTB_PB0' = OPTOTRIAC_ON
         /\ state' = SWITCHING
         /\ timer0' = TIMER_INT_OFF(t)
    ELSE /\ PORTB_PB0' = OPTOTRIAC_OFF
         /\ timer0' = TIM0_COMPA_Switching(t)
         /\ UNCHANGED state

\* the body of ISR(TIM0_COMPA_vect)
TIM0_COMPA_body(t) ==
    IF state = WAITING_FOR_TRIGGER
    THEN /\ PORTB_PB0' = OPTOTRIAC_ON
         /\ state' = SWITCHING
         /\ timer0' \in SetTimer(t, 8, Char(149))
    ELSE IF state = SWITCHING
    THEN /\ PORTB_PB0' = OPTOTRIAC_OFF
         /\ timer0' = TIM0_COMPA_Switching(t)
         /\ UNCHANGED state
    ELSE /\ timer0' = t
         /\ UNCHANGED <<PORTB_PB0, state>>

TIM0_COMPA_vect ==
    /\ timer0.OCIE0A /\ timer0.OCF0A
    /\ TIM0_COMPA_body([timer0 EXCEPT !.OCF0A = FALSE])
    /\ ev' = "TIM0_COMPA"
    /\ stale' = FALSE
    /\ asserts' = IF asserts < MaxAsserts
                  THEN asserts + Rising(PORTB_PB0, PORTB_PB0')
                  ELSE asserts
    /\ UNCHANGED <<ADCResult, ADSC, lastPercent, atZC, call, isrVars>>

Next == Tick \/ INT0_vect \/ ADC_vect \/ TIM0_COMPA_vect

Spec == Init /\ [][Next]_vars

----------------------------------------------------------------------------
(* Properties of the handlers, checked under Spec *)

\* The second expiry of the half-cycle has been handled: the state is
\* SWITCHING (set by the first expiry, which asserts the output) and the
\* output has been de-asserted again.
SecondExpiryHandled == state = SWITCHING /\ PORTB_PB0 = 0

\* C1: whatever the state before it, a handled zero cross (INT0) leaves the
\* output de-asserted and the state WAITING_FOR_TRIGGER.
C1_ZeroCrossResets ==
    ev = "INT0" => (PORTB_PB0 = 0 /\ state = WAITING_FOR_TRIGGER)

\* a zero cross handled while SWITCHING with the output asserted and an
\* expiry pending
C1_Witness ==
    /\ ev = "INT0"
    /\ atZC = [state |-> SWITCHING, PB0 |-> 1, OCF0A |-> TRUE]
    /\ PORTB_PB0 = 0 /\ state = WAITING_FOR_TRIGGER

\* C2: a timer expiry handled in WAITING_FOR_TRIGGER asserts the output, sets
\* the state to SWITCHING and re-arms the timer: divisor 8, compare count 149
\* ahead of the counter, expiry signal enabled.
C2_FirstExpiryFires ==
    [][(ev' = "TIM0_COMPA" /\ state = WAITING_FOR_TRIGGER)
         => /\ PORTB_PB0' = 1
            /\ state' = SWITCHING
            /\ timer0'.CS = 8
            /\ timer0'.toMatch = TRIGGER_PULSE_DURATION_PRESC_8
            /\ timer0'.OCIE0A]_vars

\* the first expiry after a zero cross that programmed divisor 256
C2_Witness ==
    /\ ev = "TIM0_COMPA" /\ state = SWITCHING /\ PORTB_PB0 = 1
    /\ lastPercent \in 1..99
    /\ timer0.CS = 8 /\ timer0.toMatch = 149 /\ timer0.OCIE0A

\* C3: a timer expiry handled in SWITCHING de-asserts the output and leaves
\* the state SWITCHING; the state leaves SWITCHING only by a zero cross,
\* which sets it to WAITING_FOR_TRIGGER.
C3_SwitchingUntilZeroCross ==
    [][/\ (ev' = "TIM0_COMPA" /\ state = SWITCHING)
          => (PORTB_PB0' = 0 /\ state' = SWITCHING)
       /\ (state = SWITCHING /\ state' # SWITCHING)
          => (ev' = "INT0" /\ state' = WAITING_FOR_TRIGGER)]_vars

\* the second expiry of a half-cycle has just been handled
C3_Witness ==
    ev = "TIM0_COMPA" /\ state = SWITCHING /\ PORTB_PB0 = 0

\* C4 as stated: after the second expiry of a half-cycle the timer is idle
\* and no further expiry is delivered before the next zero cross.
C4_IdleAfterSecondExpiry ==
    SecondExpiryHandled => ~(timer0.OCIE0A /\ timer0.OCF0A)

\* C4 amended: the handler of the second expiry leaves the timer as it is
\* (divisor, compare count, expiry enable), so after it the timer still runs
\* with divisor 8 and its expiry signal enabled.
C4_NotRearmedStillRunning ==
    [][/\ (ev' = "TIM0_COMPA" /\ state = SWITCHING)
          => /\ timer0'.CS = timer0.CS
             /\ timer0'.toMatch = timer0.toMatch
             /\ timer0'.OCIE0A = timer0.OCIE0A
       /\ SecondExpiryHandled' => (timer0'.CS = 8 /\ timer0'.OCIE0A)]_vars

\* a further expiry is pending for delivery after the second one
C4_Witness ==
    SecondExpiryHandled /\ timer0.OCIE0A /\ timer0.OCF0A

\* C5: after a zero cross that computed percentage 0 the timer is stopped,
\* its expiry signal disabled and the output de-asserted, until the next
\* zero cross.
C5_ZeroPercentNeverFires ==
    lastPercent = 0
      => (timer0.CS = 0 /\ ~timer0.OCIE0A /\ PORTB_PB0 = 0)

\* percentage 0 with an expiry left pending, after an ADC completion
C5_Witness ==
    lastPercent = 0 /\ timer0.OCF0A /\ ev = "ADC" /\ ADCResult > 0

\* C6: a zero cross that computes percentage 100 programs divisor 64 and
\* compare count 74 with the expiry signal enabled.
C6_FullPowerFixedDelay ==
    (ev = "INT0" /\ lastPercent = 100)
      => /\ timer0.CS = 64
         /\ timer0.toMatch = ZERO_CROSS_DELAY_OCR0A_PRESC_64
         /\ timer0.OCIE0A

C6_Witness ==
    /\ ev = "INT0" /\ lastPercent = 100 /\ ADCResult > UPPER_THRESHOLD_VALUE
    /\ timer0.CS = 64 /\ timer0.toMatch = 74

\* C7: the ADC completion handler leaves the output, the state and the timer
\* (divisor, compare count, expiry enable, pending expiry) unchanged.
C7_ADCFrame ==
    [][ev' = "ADC" => UNCHANGED <<PORTB_PB0, state, timer0>>]_vars

\* an ADC completion handled while the output is asserted and the timer runs
C7_Witness ==
    /\ ev = "ADC" /\ ADCResult # 0
    /\ PORTB_PB0 = 1 /\ timer0.CS # 0 /\ timer0.OCIE0A

\* C9: an expiry raised before or while the zero cross handler reprograms
\* the timer is never delivered after it: no expiry that the configuration
\* programmed at the zero cross did not produce is ever pending with the
\* expiry signal enabled.
C9_NoStaleExpiry ==
    ~(stale /\ timer0.OCF0A /\ timer0.OCIE0A)

----------------------------------------------------------------------------
(* SpecCalc: SetWaitingPulse applied to every percentage of its domain     *)
(* 0..100 ("@param percent Power level (0-100%)")                          *)

\* an unsigned long lies in the range 0..255 of the 8-bit counter
InCounterRange(a) == a.hi = 0 /\ a.lo \in 0..255

Call_SetWaitingPulse ==
    /\ \E percent \in 0..100 :
         /\ timer0' \in SetWaitingPulse(timer0, percent)
         /\ call' = IF percent \in {0, 100}
                    THEN [fn |-> "SetWaitingPulse", percent |-> percent,
                          timeDelay |-> 0, prescaler |-> 0, a |-> ULong(0)]
                    ELSE LET timeDelay == TimeDelay(percent)
                             prescaler == SelectPrescaler(timeDelay)
                         IN  [fn |-> "SetWaitingPulse", percent |-> percent,
                              timeDelay |-> timeDelay,
                              prescaler |-> prescaler,
                              a |-> RegisterValueLong(prescaler, timeDelay)]
    /\ UNCHANGED <<PORTB_PB0, state, ADCResult, ADSC, histVars, isrVars>>

NextCalc == Call_SetWaitingPulse

SpecCalc == Init /\ [][NextCalc]_vars

\* C10: for every percentage 1..99 passed to SetWaitingPulse the compare
\* count computed for the selected divisor lies in 0..255 before the cast to
\* char.
C10_CompareCountFits ==
    (call.fn = "SetWaitingPulse" /\ call.percent \in 1..99)
      => InCounterRange(call.a)

----------------------------------------------------------------------------
(* SpecISR: the three handlers instruction by instruction.  The hardware    *)
(* raises the interrupt flags at any time; a vector is taken when its flag  *)
(* and enable are set and the I flag of SREG is set; taking it clears the   *)
(* flag and the I flag, and reti sets the I flag again.  An int is read and *)
(* written by the 8-bit CPU one byte at a time.  The ticks of Timer0 are    *)
(* not counted here: a compare match may be raised whenever the timer runs. *)

\* Most handlers that may be begun and not returned at once.
MaxNest == 2

\* The I flag while a handler declared with ISR(vector) runs.
ISR_I_NoBlock == TRUE
ISR_I == FALSE

Top == IF isr = <<>> THEN "main" ELSE isr[Len(isr)]
Goto(pc) == isr' = [isr EXCEPT ![Len(isr)] = pc]
LowByte(x) == x % 256
HighByte(x) == x \div 256
Word(hi, lo) == (hi * 256) + lo

isrFrame == <<histVars, call>>

\* rising edge of the zero cross detector on INT0
HW_ZeroCross ==
    /\ ~INTF0
    /\ INTF0' = TRUE
    /\ UNCHANGED <<PORTB_PB0, state, ADCResult, ADSC, timer0, SREG_I, isr,
                   ADIF, ADCreg, ADClocked, ADCTempResult, word, arg,
                   delivered, isrFrame>>

\* the conversion started by ADCStart ends with the reading s; the data
\* register is not updated between a read of ADCL and the read of ADCH
HW_ConversionDone ==
    /\ ADSC
    /\ \E s \in Samples : ADCreg' = IF ADClocked THEN ADCreg ELSE s
    /\ ADSC' = FALSE
    /\ ADIF' = TRUE
    /\ UNCHANGED <<PORTB_PB0, state, ADCResult, timer0, SREG_I, isr, INTF0,
                   ADClocked, ADCTempResult, word, arg, delivered, isrFrame>>

\* the running Timer0 counts up to its next compare match
HW_CompareMatch ==
    /\ timer0.CS # 0
    /\ ~timer0.OCF0A
    /\ timer0' = [timer0 EXCEPT !.OCF0A = TRUE, !.toMatch = 255]
    /\ UNCHANGED <<PORTB_PB0, state, ADCResult, ADSC, SREG_I, isr, INTF0,
                   ADIF, ADCreg, ADClocked, ADCTempResult, word, arg,
                   delivered, isrFrame>>

CanInterrupt == SREG_I /\ Len(isr) < MaxNest

IRQ_INT0 ==
    /\ CanInterrupt /\ INTF0
    /\ INTF0' = FALSE
    /\ SREG_I' = ISR_I
    /\ isr' = Append(isr, "INT0_off")
    /\ UNCHANGED <<PORTB_PB0, state, ADCResult, ADSC, timer0, ADIF, ADCreg,
                   ADClocked, ADCTempResult, word, arg, delivered, isrFrame>>

IRQ_ADC ==
    /\ CanInterrupt /\ ADIF
    /\ ADIF' = FALSE
    /\ SREG_I' = ISR_I
    /\ isr' = Append(isr, "ADC_L")
    /\ UNCHANGED <<PORTB_PB0, state, ADCResult, ADSC, timer0, INTF0, ADCreg,
                   ADClocked, ADCTempResult, word, arg, delivered, isrFrame>>

IRQ_TIM0_COMPA ==
    /\ CanInterrupt /\ timer0.OCIE0A /\ timer0.OCF0A
    /\ timer0' = [timer0 EXCEPT !.OCF0A = FALSE]
    /\ SREG_I' = ISR_I
    /\ isr' = Append(isr, "TIM0_body")
    /\ UNCHANGED <<PORTB_PB0, state, ADCResult, ADSC, INTF0, ADIF, ADCreg,
                   ADClocked, ADCTempResult, word, arg, delivered, isrFrame>>

\* ISR(INT0_vect): OPTOTRIAC_OFF;
INT0_off ==
    /\ Top = "INT0_off"
    /\ PORTB_PB0' = OPTOTRIAC_OFF
    /\ Goto("INT0_ld0")
    /\ UNCHANGED <<state, ADCResult, ADSC, timer0, SREG_I, INTF0, ADIF,
                   ADCreg, ADClocked, ADCTempResult, word, arg, delivered,
                   isrFrame>>

\* ISR(INT0_vect): the argument (unsigned)ADCResult, first byte
INT0_ld0 ==
    /\ Top = "INT0_ld0"
    /\ arg' = LowByte(ADCResult)
    /\ Goto("INT0_ld1")
    /\ UNCHANGED <<PORTB_PB0, state, ADCResult, ADSC, timer0, SREG_I, INTF0,
                   ADIF, ADCreg, ADClocked, ADCTempResult, word, delivered,
                   isrFrame>>

\* ISR(INT0_vect): the argument (unsigned)ADCResult, second byte
INT0_ld1 ==
    /\ Top = "INT0_ld1"
    /\ arg' = Word(HighByte(ADCResult), arg)
    /\ Goto("INT0_set")
    /\ UNCHANGED <<PORTB_PB0, state, ADCResult, ADSC, timer0, SREG_I, INTF0,
                   ADIF, ADCreg, ADClocked, ADCTempResult, word, delivered,
                   isrFrame>>

\* ISR(INT0_vect): SetWaitingPulse(CalculateADCValue(...)); state = ...;
INT0_set ==
    /\ Top = "INT0_set"
    /\ timer0' \in SetWaitingPulse(timer0, CalculateADCValue(UInt(arg)))
    /\ state' = INT0_state
    /\ Goto("INT0_adc")
    /\ UNCHANGED <<PORTB_PB0, ADCResult, ADSC, SREG_I, INTF0, ADIF, ADCreg,
                   ADClocked, ADCTempResult, word, arg, delivered, isrFrame>>

\* ISR(INT0_vect): ADCStart();
INT0_adc ==
    /\ Top = "INT0_adc"
    /\ ADSC' = TRUE
    /\ Goto("reti")
    /\ UNCHANGED <<PORTB_PB0, state, ADCResult, timer0, SREG_I, INTF0, ADIF,
                   ADCreg, ADClocked, ADCTempResult, word, arg, delivered,
                   isrFrame>>

\* ISR(ADC_vect): volatile int ADCTempResult = ADCL;
ADC_L ==
    /\ Top = "ADC_L"
    /\ ADCTempResult' = LowByte(ADCreg)
    /\ ADClocked' = TRUE
    /\ Goto("ADC_H")
    /\ UNCHANGED <<PORTB_PB0, state, ADCResult, ADSC, timer0, SREG_I, INTF0,
                   ADIF, ADCreg, word, arg, delivered, isrFrame>>

\* ISR(ADC_vect): (ADCH << 8) + ADCTempResult
ADC_H ==
    /\ Top = "ADC_H"
    /\ word' = Word(HighByte(ADCreg), ADCTempResult)
    /\ ADClocked' = FALSE
    /\ Goto("ADC_st0")
    /\ UNCHANGED <<PORTB_PB0, state, ADCResult, ADSC, timer0, SREG_I, INTF0,
                   ADIF, ADCreg, ADCTempResult, arg, delivered, isrFrame>>

\* ISR(ADC_vect): ADCResult = ..., first byte
ADC_st0 ==
    /\ Top = "ADC_st0"
    /\ ADCResult' = Word(HighByte(ADCResult), LowByte(word))
    /\ Goto("ADC_st1")
    /\ UNCHANGED <<PORTB_PB0, state, ADSC, timer0, SREG_I, INTF0, ADIF,
                   ADCreg, ADClocked, ADCTempResult, word, arg, delivered,
                   isrFrame>>

\* ISR(ADC_vect): ADCResult = ..., second byte
ADC_st1 ==
    /\ Top = "ADC_st1"
    /\ ADCResult' = Word(HighByte(word), LowByte(ADCResult))
    /\ delivered' = word
    /\ Goto("reti")
    /\ UNCHANGED <<PORTB_PB0, state, ADSC, timer0, SREG_I, INTF0, ADIF,
                   ADCreg, ADClocked, ADCTempResult, word, arg, isrFrame>>

\* ISR(TIM0_COMPA_vect), its whole body
TIM0_body ==
    /\ Top = "TIM0_body"
    /\ TIM0_COMPA_body(timer0)
    /\ Goto("reti")
    /\ UNCHANGED <<ADCResult, ADSC, SREG_I, INTF0, ADIF, ADCreg, ADClocked,
                   ADCTempResult, word, arg, delivered, isrFrame>>

\* reti: the locals of the handler end with it
Reti ==
    /\ Top = "reti"
    /\ isr' = SubSeq(isr, 1, Len(isr) - 1)
    /\ SREG_I' = TRUE
    /\ ADCTempResult' = 0 /\ word' = 0 /\ arg' = 0
    /\ UNCHANGED <<PORTB_PB0, state, ADCResult, ADSC, timer0, INTF0, ADIF,
                   ADCreg, ADClocked, delivered, isrFrame>>

NextISR ==
    \/ HW_ZeroCross \/ HW_ConversionDone \/ HW_CompareMatch
    \/ IRQ_INT0 \/ IRQ_ADC \/ IRQ_TIM0_COMPA
    \/ INT0_off \/ INT0_ld0 \/ INT0_ld1 \/ INT0_set \/ INT0_adc
    \/ ADC_L \/ ADC_H \/ ADC_st0 \/ ADC_st1
    \/ TIM0_body
    \/ Reti

SpecISR == Init /\ [][NextISR]_vars

\* C8: at most one handler is begun and not returned, and the sample the
\* zero cross handler has read from ADCResult is the whole reading stored by
\* the last completed ADC handler (0 before the first).
C8_SerializedWholeSample ==
    /\ Len(isr) <= 1
    /\ Top = "INT0_set" => arg = delivered

\* the zero cross handler has read a two-byte reading while a later
\* conversion has ended and awaits its handler
C8_Witness ==
    /\ Top = "INT0_set" /\ arg = delivered /\ arg > 255
    /\ ADIF /\ ADCreg # arg

----------------------------------------------------------------------------
(* SpecMap: CalculateADCValue applied once to a pair of raw readings       *)
(* raw1 <= raw2 of the 10-bit range 0..MAX_ADC_VALUE                       *)

progVars == <<PORTB_PB0, state, ADCResult, ADSC, timer0>>

Call_CalculateADCValue ==
    /\ call.fn = "none"
    /\ \E raw1 \in 0..MAX_ADC_VALUE :
         \E raw2 \in raw1..MAX_ADC_VALUE :
           call' = [fn |-> "CalculateADCValue",
                    raw1 |-> raw1, out1 |-> CalculateADCValue(raw1),
                    raw2 |-> raw2, out2 |-> CalculateADCValue(raw2)]
    /\ UNCHANGED <<progVars, histVars, isrVars>>

NextMap == Call_CalculateADCValue

SpecMap == Init /\ [][NextMap]_vars

Mapped == call.fn = "CalculateADCValue"

\* C11 as stated: 0 for every raw <= 220 and 100 for every raw >= 941.
C11_ClampsInclusive ==
    Mapped => /\ call.raw1 <= 220 => call.out1 = 0
              /\ call.raw1 >= 941 => call.out1 = 100

\* C11 amended: 0 for every raw < 220 and 100 for every raw > 941; the
\* thresholds themselves are mapped by the linear formula, 220 to 1 and 941
\* to 89.
C11_ClampsStrict ==
    Mapped => /\ call.raw1 < 220 => call.out1 = 0
              /\ call.raw1 > 941 => call.out1 = 100
              /\ call.raw1 = 220 => call.out1 = 1
              /\ call.raw1 = 941 => call.out1 = 89

\* the last raw below the lower threshold and the first above the upper one
C11_Witness ==
    /\ Mapped
    /\ call.raw1 = 219 /\ call.out1 = 0
    /\ call.raw2 = 942 /\ call.out2 = 100

\* C12: over 0..1023 CalculateADCValue is non-decreasing and its result lies
\* in 0..100; a call reads and writes no state of the program.
C12_MonotoneInRange ==
    /\ [](Mapped => /\ call.out1 <= call.out2
                    /\ call.out1 \in 0..100
                    /\ call.out2 \in 0..100)
    /\ [][Mapped' => UNCHANGED <<progVars, histVars, isrVars>>]_vars

\* two readings on either side of the upper threshold
C12_Witness ==
    /\ Mapped
    /\ call.raw1 = 941 /\ call.raw2 = 942
    /\ call.out1 < call.out2

\* C13: CalculateADCValue equals the reference map: 100 above 941, 0 below
\* 220, otherwise (raw - 205) * 100 / (1023 - 205) truncated; 614 maps to 50.
C13_ReferenceMap ==
    Mapped =>
      /\ call.out1 = IF call.raw1 > 941 THEN 100
                     ELSE IF call.raw1 < 220 THEN 0
                     ELSE ((call.raw1 - 205) * 100) \div (1023 - 205)
      /\ call.raw1 = 614 => call.out1 = 50

\* the midpoint reading
C13_Witness ==
    Mapped /\ call.raw1 = 614 /\ call.out1 = 50

----------------------------------------------------------------------------
(* SpecReg: CalculateRegisterValue applied once to a divisor of {8, 64,    *)
(* 256} and a duration of the 16-bit unsigned range                        *)

Call_CalculateRegisterValue ==
    /\ call.fn = "none"
    /\ \E prescaler \in {8, 64, 256} :
         \E time \in 0..((2^16) - 1) :
           call' = [fn |-> "CalculateRegisterValue",
                    prescaler |-> prescaler, time |-> time,
                    a |-> RegisterValueLong(prescaler, time),
                    out |-> CalculateRegisterValue(prescaler, time)]
    /\ UNCHANGED <<progVars, histVars, isrVars>>

NextReg == Call_CalculateRegisterValue

SpecReg == Init /\ [][NextReg]_vars

\* C14: whenever floor(4800000 * duration / 1000000 / divisor) - 1 lies in
\* 0..255 (the clock being 48/10 cycles per microsecond),
\* CalculateRegisterValue returns it; divisor 8 with 250 us gives 149 and
\* divisor 64 with 1000 us gives 74, the two fixed constants.
C14_RegisterValue ==
    call.fn = "CalculateRegisterValue" =>
      LET reference == ((48 * call.time) \div (10 * call.prescaler)) - 1
      IN  /\ reference \in 0..255
               => (call.out = reference /\ InCounterRange(call.a))
          /\ (call.prescaler = 8 /\ call.time = 250)
               => call.out = TRIGGER_PULSE_DURATION_PRESC_8
          /\ (call.prescaler = 64 /\ call.time = 1000)
               => call.out = ZERO_CROSS_DELAY_OCR0A_PRESC_64

\* the pulse width: divisor 8 and 250 us
C14_Witness ==
    /\ call.fn = "CalculateRegisterValue"
    /\ call.prescaler = 8 /\ call.time = 250 /\ call.out = 149

----------------------------------------------------------------------------
(* The general case of SetWaitingPulse, checked under SpecCalc *)

GeneralCase ==
    call.fn = "SetWaitingPulse" /\ call.percent \notin {0, 100}

\* C15: in the general case the delay is 10000 - (100 * p + 1000), the
\* divisor is 8 below 425, 64 below 3400 and 256 otherwise, and the timer is
\* programmed with that divisor and CalculateRegisterValue(divisor, delay);
\* delay 400 selects 8, 1500 selects 64, 5000 selects 256.
C15_GeneralCase ==
    GeneralCase =>
      LET delay == 10000 - ((100 * call.percent) + 1000)
          divisor == IF delay < 425 THEN 8
                     ELSE IF delay < 3400 THEN 64 ELSE 256
      IN  /\ call.timeDelay = delay
          /\ call.prescaler = divisor
          /\ timer0.CS = divisor
          /\ timer0.toMatch = CalculateRegisterValue(divisor, delay)
          /\ timer0.OCIE0A
          /\ delay = 400 => divisor = 8
          /\ delay = 1500 => divisor = 64
          /\ delay = 5000 => divisor = 256

\* C16: in the general case the divisor chosen is the smallest of {8, 64,
\* 256} for which the compare count of the delay fits 0..255.
C16_SmallestFittingDivisor ==
    GeneralCase =>
      /\ InCounterRange(RegisterValueLong(call.prescaler, call.timeDelay))
      /\ \A d \in {8, 64, 256} :
           d < call.prescaler
             => ~InCounterRange(RegisterValueLong(d, call.timeDelay))

----------------------------------------------------------------------------
(* SpecPipe: the zero cross handler with any 10-bit reading latched *)

InitPipe ==
    /\ PORTB_PB0 = 0
    /\ state = WAITING_FOR_TRIGGER
    /\ ADCResult \in 0..MAX_ADC_VALUE
    /\ ADSC = FALSE
    /\ timer0 = [CS |-> 0, OCIE0A |-> FALSE, OCF0A |-> FALSE, toMatch |-> 0]
    /\ ev = "ADC"
    /\ lastPercent = -1
    /\ atZC = [state |-> WAITING_FOR_TRIGGER, PB0 |-> 0, OCF0A |-> FALSE]
    /\ stale = FALSE
    /\ asserts = 0
    /\ call = NoCall
    /\ SREG_I = TRUE
    /\ isr = <<>>
    /\ INTF0 = FALSE
    /\ ADIF = FALSE
    /\ ADCreg = ADCResult
    /\ ADClocked = FALSE
    /\ ADCTempResult = 0
    /\ word = 0
    /\ arg = 0
    /\ delivered = ADCResult

NextPipe == INT0_vect

SpecPipe == InitPipe /\ [][NextPipe]_vars

\* C20: for every latched reading 0..1023 the percentage the zero cross
\* handler computes is 0, 100 or in 1..89; in 1..89 the 16-bit delay is
\* 10000 - (100 * p + 1000), within 100..8900, and the compare count the
\* timer is programmed with lies in 0..255 before the cast to char.
C20_PipelineNeverWraps ==
    ev = "INT0" =>
      LET p == lastPercent
          delay == 10000 - ((100 * p) + 1000)
      IN  /\ p = CalculateADCValue(UInt(ADCResult))
          /\ p \in {0, 100} \cup (1..89)
          /\ p \in 1..89 =>
               /\ delay \in 100..8900
               /\ TimeDelay(p) = delay
               /\ InCounterRange(RegisterValueLong(SelectPrescaler(delay),
                                                   delay))
               /\ timer0.CS = SelectPrescaler(delay)
               /\ timer0.toMatch
                    = RegisterValueLong(SelectPrescaler(delay), delay).lo

\* the largest reading of the linear range: percentage 89, delay 100
C20_Witness ==
    /\ ev = "INT0" /\ ADCResult = 941 /\ lastPercent = 89
    /\ timer0.CS = 8 /\ timer0.toMatch = 59

----------------------------------------------------------------------------
(* Properties of the output over a half-cycle, checked under Spec and      *)
(* SpecFair                                                                *)

\* C17: after reset and after every handler, an asserted output implies the
\* state SWITCHING; the output is never asserted in WAITING_FOR_TRIGGER.
C17_AssertedOnlyWhileSwitching ==
    /\ PORTB_PB0 = 1 => state = SWITCHING
    /\ ev = "reset" => (PORTB_PB0 = 0 /\ state = WAITING_FOR_TRIGGER)

\* the output asserted by the first expiry, then an ADC completion
C17_Witness ==
    PORTB_PB0 = 1 /\ state = SWITCHING /\ ev = "ADC"

\* C18: between two zero cross events the output is asserted at most once.
C18_AssertedAtMostOnce ==
    asserts <= 1

\* a later expiry handled in a half-cycle whose first expiry asserted the
\* output
C18_Witness ==
    asserts = 1 /\ ev = "TIM0_COMPA" /\ SecondExpiryHandled

\* Timer0 is clocked by the prescaled system clock for as long as a divisor
\* is selected, and a pending enabled expiry is vectored once no handler is
\* running: both steps are taken when they stay possible. Nothing forces a
\* zero cross or an ADC completion to occur.
SpecFair ==
    Init /\ [][Next]_vars /\ WF_vars(Tick) /\ WF_vars(TIM0_COMPA_vect)

\* C19: while the output is asserted, the next timer expiry or zero cross
\* handled de-asserts it and an ADC completion leaves it as it is; the
\* asserting expiry leaves the timer running on the divisor 8 with its
\* expiry enabled; and every assertion is followed by a de-assertion, also
\* along the behaviours in which no zero cross occurs any more.
C19_AssertionEndsAtNextExpiry ==
    /\ [][/\ (PORTB_PB0 = 1 /\ ev' \in {"TIM0_COMPA", "INT0"})
               => PORTB_PB0' = 0
          /\ ev' = "ADC" => PORTB_PB0' = PORTB_PB0
          /\ (PORTB_PB0 = 0 /\ PORTB_PB0' = 1)
               => (timer0'.CS = 8 /\ timer0'.OCIE0A)]_vars
    /\ [](PORTB_PB0 = 1 => (timer0.CS # 0 /\ timer0.OCIE0A))
    /\ (PORTB_PB0 = 1) ~> (PORTB_PB0 = 0)

\* the expiry of the re-armed timer has de-asserted the output with no zero
\* cross since the assertion
C19_Witness ==
    /\ PORTB_PB0 = 0 /\ ev = "TIM0_COMPA" /\ state = SWITCHING
    /\ asserts = 1 /\ timer0.CS = 8 /\ timer0.OCIE0A

====
